---- MODULE Spec2Model ----
(***************************************************************************)
(* SmartThings switch and media-player platforms                           *)
(* (custom_components/smartthings/switch.py, media_player.py).             *)
(*                                                                         *)
(* SpecCaps: the two pure get_capabilities functions, applied to every     *)
(* capability collection over a bounded universe.                          *)
(*                                                                         *)
(* Spec, SpecEvents, SpecOrder, SpecReads: the entity adapters of one       *)
(* device on the single-threaded event loop.  A write handler suspends at  *)
(* its one await and resumes with the remote result; push updates and      *)
(* is_on reads are interleaved at the suspension points.  The four         *)
(* specifications have the same program state and the same actions and     *)
(* differ in which observer variables (which never influence the program)  *)
(* are kept:                                                               *)
(*   Spec        written;                                                  *)
(*   SpecEvents  last;                                                     *)
(*   SpecOrder   applied, the calls' overtakenBy marks, and last for the   *)
(*               handlers that resumed with success;                       *)
(*   SpecReads   reads, visits (and at most MaxReads reads are taken).     *)
(***************************************************************************)
EXTENDS Integers, Sequences, FiniteSets, TLC

VARIABLES
    caps,        \* get_capabilities input: the capabilities of the device
    swResult,    \* switch.get_capabilities(caps), or NotCalled
    mpResult,    \* media_player.get_capabilities(caps), or NotCalled
    entities,    \* the adapters async_setup_entry (or a direct construction) made
    light,       \* the SamsungOcfSwitch instance's fields
    status,      \* device.status: the shared snapshot of the device
    inflight,    \* remote calls awaited by suspended write handlers, in issue order
    visits,      \* number of page-visit calls device.execute(page) issued
    reads,       \* number of is_on evaluations of the SamsungOcfSwitch
    written,     \* per attribute: what the last successful write since its last push wrote
    applied,     \* per attribute: value of the last patch or push the loop processed
    last,        \* what the event loop processed last (handler run, its effects)
    observe      \* which observer variables this behaviour keeps

vars == <<caps, swResult, mpResult, entities, light, status, inflight,
          visits, reads, written, applied, last, observe>>

capVars == <<caps, swResult, mpResult>>
devVars == <<entities, light, status, inflight, visits, reads, written, applied, last,
             observe>>

----------------------------------------------------------------------------
(* Bounds                                                                   *)

\* capabilities of the universe that neither platform knows
NumExtra == 2
\* remote calls that may be awaited at the same time
MaxInFlight == 2
\* is_on evaluations of the paged switch that are counted
MaxReads == 2
\* switch capabilities the broker assigns to one device
MaxAssigned == 1

----------------------------------------------------------------------------
(* Capability registry: switch.py CAPABILITY_TO_SWITCH, get_capabilities    *)

None == "None"

\* what get_capabilities returns: a list, or None
PyList(l) == [none |-> FALSE, value |-> l]
PyNone == [none |-> TRUE, value |-> <<>>]
\* a get_capabilities that has not been called yet
NotCalled == [called |-> FALSE, ret |-> PyNone]
Returned(r) == [called |-> TRUE, ret |-> r]

\* Map(attribute on_command off_command on_value off_value name icon extra)
Map(attribute, on_command, off_command, on_value, off_value, name, icon) ==
    [attribute |-> attribute, on_command |-> on_command,
     off_command |-> off_command, on_value |-> on_value,
     off_value |-> off_value, name |-> name, icon |-> icon]

\* the keys of CAPABILITY_TO_SWITCH, in the dict's insertion order
SwitchKeys ==
    <<"switch", "audioMute", "custom.spiMode", "custom.autoCleaningMode">>

CAPABILITY_TO_SWITCH ==
    [c \in {SwitchKeys[i] : i \in DOMAIN SwitchKeys} |->
        CASE c = "switch" ->
               Map("switch", "switch_on", "switch_off", "on", "off", "Switch", None)
          [] c = "audioMute" ->
               Map("mute", "setMute", "setMute", "muted", "unmuted", "Mute",
                   "mdi:volume-mute")
          [] c = "custom.spiMode" ->
               Map("spiMode", "setSpiMode", "setSpiMode", "on", "off", "SPI Mode", None)
          [] c = "custom.autoCleaningMode" ->
               Map("autoCleaningMode", "setAutoCleaningMode", "setAutoCleaningMode",
                   "on", "off", "Auto Cleaning Mode", "mdi:shimmer")]

\* [x for x in keys if x in capabilities], keys taken in order
RECURSIVE Comprehension(_, _)
Comprehension(keys, capabilities) ==
    IF keys = <<>> THEN <<>>
    ELSE (IF Head(keys) \in capabilities THEN <<Head(keys)>> ELSE <<>>)
         \o Comprehension(Tail(keys), capabilities)

\* variant: the comprehension misses the registry's last key
SwitchDropsLastKey(capabilities) ==
    PyList(Comprehension(SubSeq(SwitchKeys, 1, Len(SwitchKeys) - 1), capabilities))

SwitchGetCapabilities(capabilities) ==
    PyList(Comprehension(SwitchKeys, capabilities))

(* media_player.py get_capabilities                                         *)

supported ==
    <<"switch", "mediaInputSource", "mediaPlayback", "mediaPlaybackRepeat",
      "mediaPlaybackShuffle", "audioMute", "audioVolume", "tvChannel",
      "powerMeter", "powerConsumptionReport", "powerSource">>

Elems(s) == {s[i] : i \in DOMAIN s}

\* variant: any(...) in place of all(...)
MediaAnyPresent(capabilities) ==
    IF \E i \in DOMAIN supported : supported[i] \in capabilities
    THEN PyList(supported) ELSE PyNone

MediaGetCapabilities(capabilities) ==
    IF \A i \in DOMAIN supported : supported[i] \in capabilities
    THEN PyList(supported) ELSE PyNone

\* the capability identifiers a device may report
Universe ==
    Elems(supported) \cup Elems(SwitchKeys) \cup {"extra" \o ToString(i) : i \in 1..NumExtra}


----------------------------------------------------------------------------
(* Values                                                                   *)
(* Python strings are strings; the ints 100 and 0 of the "Audio" switch are *)
(* written "100" and "0" (no other value of the model is spelt so, hence    *)
(* == between modelled values is unchanged); lists of strings are sequences.*)

Page == "/mode/vs/0"
OtherPage == "/other/vs/0"
Key == "x.com.samsung.da.options"

\* the lists a push update may deliver at payload[key] of the page
Payloads ==
    {<<>>, <<"Light_On">>, <<"Light_Off">>, <<"Sleep_0">>,
     <<"Sleep_0", "Light_On">>, <<"Light_Off", "Light_On">>}

\* x in output, output a list of strings and x a string
InList(x, output) == \E i \in DOMAIN output : output[i] = x
\* x in output, output a list of strings and x a list: no element is a list
ListInList(x, output) == FALSE

----------------------------------------------------------------------------
(* async_setup_entry: which adapters a device gets                          *)

\* models for which no "Light" switch is made
ExcludedModels == {"SAC_SLIM1WAY", "SAC_BIG_SLIM1WAY", "MIM-H04EN"}

AllDevices ==
    [assigned : SUBSET Elems(SwitchKeys), media : BOOLEAN,
     mnmn : {"Samsung Electronics", "Other"}, type : {"OCF", "VIPER"},
     binaryId : {"ARTIK051_KRAC_18K", "SAC_SLIM1WAY"}, climate : BOOLEAN]

\* SmartThingsSwitch(device, m.attribute, ...) / SmartThingsCustomSwitch(device, capability, ...)
Entity(kind, capability, m) ==
    [kind |-> kind, capability |-> capability, attribute |-> m.attribute,
     on_command |-> m.on_command, off_command |-> m.off_command,
     on_value |-> m.on_value, off_value |-> m.off_value, name |-> m.name]

CustomCapabilities == {"custom.autoCleaningMode", "custom.spiMode", "audioMute"}

\* SamsungOcfSwitch.__init__ with the class attributes execute_state, init_bool
SamsungOcfSwitch(page, key, on_value, off_value, origin) ==
    [exists |-> TRUE, origin |-> origin, page |-> page, key |-> key,
     on_value |-> on_value, off_value |-> off_value,
     execute_state |-> FALSE, init_bool |-> FALSE]

NoLight ==
    [exists |-> FALSE, origin |-> "none", page |-> Page, key |-> Key,
     on_value |-> <<>>, off_value |-> <<>>,
     execute_state |-> FALSE, init_bool |-> FALSE]

MakesOcf(d) ==
    /\ d.mnmn = "Samsung Electronics"
    /\ d.type = "OCF"
    /\ d.climate
    /\ d.binaryId \notin ExcludedModels

\* variant: the lists passed as on ["Light_On"], off ["Light_Off"]
SetupLightAsExample(d) ==
    IF MakesOcf(d)
    THEN SamsungOcfSwitch(Page, Key, <<"Light_On">>, <<"Light_Off">>, "setup")
    ELSE NoLight

\* the SamsungOcfSwitch of switch.async_setup_entry
SetupLight(d) ==
    IF MakesOcf(d)
    THEN SamsungOcfSwitch(Page, Key, <<"Light_Off">>, <<"Light_On">>, "setup")
    ELSE NoLight

\* the SmartThingsSwitch / SmartThingsCustomSwitch list of switch.async_setup_entry
SetupSwitches(d) ==
    {Entity(IF c \in CustomCapabilities THEN "custom" ELSE "generic", c,
            CAPABILITY_TO_SWITCH[c]) : c \in d.assigned}
    \cup
    (IF MakesOcf(d)
     THEN {Entity("custom", "audioVolume",
                  Map("volume", "setVolume", "setVolume", "100", "0", "Audio",
                      "mdi:volume-high"))}
     ELSE {})

\* media_player.async_setup_entry: SmartThingsMediaPlayer(device)
SetupMediaPlayers(d) ==
    IF d.media
    THEN {[kind |-> "media", capability |-> None, attribute |-> "switch",
           on_command |-> None, off_command |-> None, on_value |-> None,
           off_value |-> None, name |-> None]}
    ELSE {}

\* the devices of the model: at most MaxAssigned switch capabilities are
\* assigned, and a device that gets the "Light" and "Audio" pair gets only it
\* (adapters of different attributes share no state but the snapshot record)
Devices ==
    {d \in AllDevices :
        /\ Cardinality(d.assigned) <= MaxAssigned
        /\ SetupLight(d).exists => d.assigned = {} /\ ~d.media}

\* SamsungOcfSwitch instances constructed directly, with the lists the other way
\* round than async_setup_entry passes them, and with longer lists
DirectLights ==
    {SamsungOcfSwitch(Page, Key, <<"Light_On">>, <<"Light_Off">>, "direct"),
     SamsungOcfSwitch(Page, Key, <<"Light_On", "Sleep_0">>, <<"Light_Off">>, "direct")}


----------------------------------------------------------------------------
(* device.status: the snapshot, its accessors and its in-place patch        *)
(* The status object is the client library's.  It is taken as an           *)
(* attribute-keyed snapshot: getattr gives the attribute's value (a bool   *)
(* for switch), update_attribute_value replaces the value and keeps the    *)
(* attribute's data (the href of "data").  The value of "data" is kept as  *)
(* the list at value["payload"][key]; payloads without the key, and on- or *)
(* off-values that are strings instead of lists, are not part of the model.*)

InitialStatus ==
    [switch |-> FALSE, mute |-> "unmuted", spiMode |-> "off",
     autoCleaningMode |-> "off", volume |-> "50",
     data |-> [href |-> OtherPage, value |-> <<>>]]

\* getattr(self._device.status, attribute)
GetAttr(st, attribute) == st[attribute]

\* variant: a patch is dropped when a call issued later has patched already
UpdateAttributeValueIfNotOvertaken(st, c) ==
    IF c.overtakenBy # "none" THEN st
    ELSE IF c.attribute = "data"
         THEN [st EXCEPT !.data = [@ EXCEPT !.value = c.value]]
         ELSE [st EXCEPT ![c.attribute] = c.value]

\* status.update_attribute_value(attribute, value) with the call's attribute and
\* value (for "data" the value is {"payload": {key: value}}; the href is kept);
\* status.switch = True / False inside switch_on / switch_off(set_status=True)
UpdateAttributeValue(st, c) ==
    IF c.attribute = "data"
    THEN [st EXCEPT !.data = [@ EXCEPT !.value = c.value]]
    ELSE [st EXCEPT ![c.attribute] = c.value]

\* values a push update may deliver for an attribute
PushValues(attribute) ==
    CASE attribute = "switch" -> BOOLEAN
      [] attribute = "mute" -> {"muted", "unmuted"}
      [] attribute = "spiMode" -> {"on", "off"}
      [] attribute = "autoCleaningMode" -> {"on", "off"}
      [] attribute = "volume" -> {"0", "50", "100"}
      [] attribute = "data" ->
           [href : {Page}, value : Payloads] \cup {[href |-> OtherPage, value |-> <<>>]}

\* the attributes some adapter of the device reads
Watched ==
    {e.attribute : e \in entities} \cup (IF light.exists THEN {"data"} ELSE {})

----------------------------------------------------------------------------
(* is_on of the four adapters                                               *)

\* SmartThingsSwitch.is_on
SwitchIsOn(st, e) == GetAttr(st, e.attribute)

\* SmartThingsCustomSwitch.is_on
CustomIsOn(st, e) ==
    IF e.on_value # None
    THEN GetAttr(st, e.attribute) = e.on_value
    ELSE GetAttr(st, e.attribute)

\* SmartThingsMediaPlayer.is_on
MediaIsOn(st) == st.switch

IsOn(st, e) ==
    CASE e.kind = "generic" -> SwitchIsOn(st, e)
      [] e.kind = "custom" -> CustomIsOn(st, e)
      [] e.kind = "media" -> MediaIsOn(st)

\* variant: the off-values are looked for first
ClassifyOffFirst(l, output) ==
    IF Len(l.on_value) > 1
    THEN IF ListInList(l.off_value, output) THEN FALSE
         ELSE IF ListInList(l.on_value, output) THEN TRUE
         ELSE l.execute_state
    ELSE IF InList(l.off_value[1], output) THEN FALSE
         ELSE IF InList(l.on_value[1], output) THEN TRUE
         ELSE l.execute_state

\* SamsungOcfSwitch.is_on, the classification of the payload at the key:
\* the new execute_state
Classify(l, output) ==
    IF Len(l.on_value) > 1
    THEN IF ListInList(l.on_value, output) THEN TRUE
         ELSE IF ListInList(l.off_value, output) THEN FALSE
         ELSE l.execute_state
    ELSE IF InList(l.on_value[1], output) THEN TRUE
         ELSE IF InList(l.off_value[1], output) THEN FALSE
         ELSE l.execute_state

\* variant: "if self.init_bool" in place of "if not self.init_bool"
StartupIfInit(l) == IF l.init_bool THEN 1 ELSE 0

\* SamsungOcfSwitch.is_on, its first statement: the startup() calls it makes,
\* each one asyncio.gather(device.execute(page))
StartupCalls(l) == IF ~l.init_bool THEN 1 ELSE 0

\* SamsungOcfSwitch.is_on: the instance after the read
OcfAfterIsOn(l, st) ==
    IF st.data.href = l.page
    THEN [l EXCEPT !.init_bool = TRUE, !.execute_state = Classify(l, st.data.value)]
    ELSE l

\* SamsungOcfSwitch.is_on: the value the read returns
OcfIsOn(l, st) == OcfAfterIsOn(l, st).execute_state


----------------------------------------------------------------------------
(* The remote calls of the write handlers                                   *)

\* device.switch_on(set_status=True) / device.switch_off(set_status=True)
SwitchCall(e, op) ==
    [kind |-> e.kind, op |-> op, attribute |-> "switch", value |-> (op = "on"),
     sent |-> [api |-> IF op = "on" THEN "switch_on" ELSE "switch_off",
               set_status |-> TRUE],
     overtakenBy |-> "none"]

\* device.command("main", capability, on_command / off_command, [on_value / off_value])
CustomCall(e, op) ==
    [kind |-> "custom", op |-> op, attribute |-> e.attribute,
     value |-> IF op = "on" THEN e.on_value ELSE e.off_value,
     sent |-> [api |-> "command", component |-> "main", capability |-> e.capability,
               command |-> IF op = "on" THEN e.on_command ELSE e.off_command,
               args |-> <<IF op = "on" THEN e.on_value ELSE e.off_value>>],
     overtakenBy |-> "none"]

\* device.execute(page, {key: on_value / off_value})
OcfCall(l, op) ==
    [kind |-> "ocf", op |-> op, attribute |-> "data",
     value |-> IF op = "on" THEN l.on_value ELSE l.off_value,
     sent |-> [api |-> "execute", page |-> l.page, key |-> l.key,
               value |-> IF op = "on" THEN l.on_value ELSE l.off_value],
     overtakenBy |-> "none"]

\* variant: no optimistic patch
PatchNever(st, c, result) == st

\* variant: the patch is made whatever the result
PatchAlways(st, c, result) == UpdateAttributeValue(st, c)

\* "if result: status.update_attribute_value(...)" of the custom and the paged
\* switch, "if result and set_status: status.switch = ..." of switch_on / switch_off
Patch(st, c, result) ==
    IF result THEN UpdateAttributeValue(st, c) ELSE st

\* "if result: ... self.execute_state = True / False" of the paged switch
OcfExecuteState(l, c, result) ==
    IF result THEN [l EXCEPT !.execute_state = (c.op = "on")] ELSE l

\* variant: async_write_ha_state inside the "if result"
EffectsNotifyOnSuccess(c, result) ==
    IF result THEN <<"update_attribute_value", "async_write_ha_state">> ELSE <<>>

\* what a write handler does after its await returned, in statement order
Effects(c, result) ==
    (IF result THEN <<"update_attribute_value">> ELSE <<>>)
    \o <<"async_write_ha_state">>

----------------------------------------------------------------------------
(* Observers                                                                *)

Event(kind, who, op, attribute, result, effects, overtakenBy) ==
    [kind |-> kind, who |-> who, op |-> op, attribute |-> attribute,
     result |-> result, effects |-> effects, overtakenBy |-> overtakenBy]

NoEvent == Event("none", "none", "none", "none", FALSE, <<>>, "none")

NoWrites == [a \in DOMAIN InitialStatus |-> "none"]

\* new when this behaviour keeps the observers of mode, old otherwise
Keep(mode, new, old) == IF observe = mode THEN new ELSE old

\* last after the event loop processed ev
LastAfter(ev) ==
    CASE observe = "events" -> ev
      [] observe = "order" -> IF ev.kind = "resume" /\ ev.result THEN ev ELSE NoEvent
      [] OTHER -> last

\* inflight without its i-th call; under SpecOrder the calls issued before it that
\* patch the same attribute are marked when the i-th call returned success
Remaining(i, result) ==
    LET c == inflight[i]
        mark(j) == IF observe = "order" /\ result /\ j < i
                      /\ inflight[j].attribute = c.attribute
                   THEN [inflight[j] EXCEPT !.overtakenBy = c.op]
                   ELSE inflight[j]
    IN  [j \in 1..(Len(inflight) - 1) |-> IF j < i THEN mark(j) ELSE inflight[j + 1]]

----------------------------------------------------------------------------
(* Initial states                                                           *)

DevInit(es, l, mode) ==
    /\ entities = es
    /\ light = l
    /\ status = InitialStatus
    /\ inflight = <<>>
    /\ visits = 0
    /\ reads = 0
    /\ written = NoWrites
    /\ applied = InitialStatus
    /\ last = NoEvent
    /\ observe = mode

InitFor(mode) ==
    /\ caps = {}
    /\ swResult = NotCalled
    /\ mpResult = NotCalled
    /\ \/ \E d \in Devices :
            DevInit(SetupSwitches(d) \cup SetupMediaPlayers(d), SetupLight(d), mode)
       \/ \E l \in DirectLights : DevInit({}, l, mode)

Init == InitFor("written")
InitEvents == InitFor("events")
InitOrder == InitFor("order")
InitReads == InitFor("reads")

InitCaps ==
    /\ caps \in SUBSET Universe
    /\ swResult = NotCalled
    /\ mpResult = NotCalled
    /\ DevInit({}, NoLight, "none")

----------------------------------------------------------------------------
(* get_capabilities applied                                                 *)

CallSwitchGetCapabilities ==
    /\ ~swResult.called
    /\ swResult' = Returned(SwitchGetCapabilities(caps))
    /\ UNCHANGED <<caps, mpResult>>
    /\ UNCHANGED devVars

CallMediaGetCapabilities ==
    /\ ~mpResult.called
    /\ mpResult' = Returned(MediaGetCapabilities(caps))
    /\ UNCHANGED <<caps, swResult>>
    /\ UNCHANGED devVars

NextCaps == CallSwitchGetCapabilities \/ CallMediaGetCapabilities

SpecCaps == InitCaps /\ [][NextCaps]_vars

----------------------------------------------------------------------------
(* Write handlers up to their await: the remote call is issued              *)

Issue(c) ==
    /\ Len(inflight) < MaxInFlight
    /\ inflight' = Append(inflight, c)
    /\ last' = NoEvent
    /\ UNCHANGED <<entities, light, status, visits, reads, written, applied, observe>>
    /\ UNCHANGED capVars

\* SmartThingsSwitch.async_turn_on / async_turn_off
SwitchTurnOn == \E e \in entities : e.kind = "generic" /\ Issue(SwitchCall(e, "on"))
SwitchTurnOff == \E e \in entities : e.kind = "generic" /\ Issue(SwitchCall(e, "off"))

\* SmartThingsCustomSwitch.async_turn_on / async_turn_off
CustomTurnOn == \E e \in entities : e.kind = "custom" /\ Issue(CustomCall(e, "on"))
CustomTurnOff == \E e \in entities : e.kind = "custom" /\ Issue(CustomCall(e, "off"))

\* SamsungOcfSwitch.async_turn_on / async_turn_off
OcfTurnOn == light.exists /\ Issue(OcfCall(light, "on"))
OcfTurnOff == light.exists /\ Issue(OcfCall(light, "off"))

\* SmartThingsMediaPlayer.async_turn_on / async_turn_off
MediaTurnOn == \E e \in entities : e.kind = "media" /\ Issue(SwitchCall(e, "on"))
MediaTurnOff == \E e \in entities : e.kind = "media" /\ Issue(SwitchCall(e, "off"))

----------------------------------------------------------------------------
(* Write handlers from their await on: the event loop resumes the handler   *)
(* with the call's result and runs it to its end                            *)

Resume(i, result) ==
    LET c == inflight[i]
    IN  /\ status' = Patch(status, c, result)
        /\ light' = IF c.kind = "ocf" THEN OcfExecuteState(light, c, result) ELSE light
        /\ inflight' = Remaining(i, result)
        /\ written' = Keep("written",
                           IF result THEN [written EXCEPT ![c.attribute] = c.op]
                           ELSE written,
                           written)
        /\ applied' = Keep("order",
                           IF ~result THEN applied
                           ELSE IF c.attribute = "data"
                                THEN [applied EXCEPT !.data.value = c.value]
                                ELSE [applied EXCEPT ![c.attribute] = c.value],
                           applied)
        /\ last' = LastAfter(Event("resume", c.kind, c.op, c.attribute, result,
                                   Effects(c, result), c.overtakenBy))
        /\ UNCHANGED <<entities, visits, reads, observe>>
        /\ UNCHANGED capVars

SwitchResume ==
    \E i \in DOMAIN inflight, result \in BOOLEAN :
        inflight[i].kind = "generic" /\ Resume(i, result)

CustomResume ==
    \E i \in DOMAIN inflight, result \in BOOLEAN :
        inflight[i].kind = "custom" /\ Resume(i, result)

OcfResume ==
    \E i \in DOMAIN inflight, result \in BOOLEAN :
        inflight[i].kind = "ocf" /\ Resume(i, result)

MediaResume ==
    \E i \in DOMAIN inflight, result \in BOOLEAN :
        inflight[i].kind = "media" /\ Resume(i, result)

\* the awaited call raises (transport failure): the exception leaves the handler
CallRaises ==
    \E i \in DOMAIN inflight :
        LET c == inflight[i]
        IN  /\ inflight' = Remaining(i, FALSE)
            /\ last' = LastAfter(Event("raise", c.kind, c.op, c.attribute, FALSE,
                                       <<>>, "none"))
            /\ UNCHANGED <<entities, light, status, visits, reads, written, applied,
                           observe>>
            /\ UNCHANGED capVars

----------------------------------------------------------------------------
(* Push updates and reads                                                   *)

\* the remote side refreshes one attribute of the snapshot
PushUpdate ==
    \E a \in Watched : \E v \in PushValues(a) :
        /\ status' = [status EXCEPT ![a] = v]
        /\ applied' = Keep("order", [applied EXCEPT ![a] = v], applied)
        /\ written' = Keep("written", [written EXCEPT ![a] = "none"], written)
        /\ last' = NoEvent
        /\ UNCHANGED <<entities, light, inflight, visits, reads, observe>>
        /\ UNCHANGED capVars

\* is_on of the generic switch, the custom switch and the media player
ReadIsOn ==
    \E e \in entities :
        /\ last' = LastAfter(Event("read", e.kind, "is_on", e.attribute,
                                   IsOn(status, e), <<>>, "none"))
        /\ UNCHANGED <<entities, light, status, inflight, visits, reads, written,
                       applied, observe>>
        /\ UNCHANGED capVars

OcfRead(op) ==
    /\ light.exists
    /\ observe = "reads" => reads < MaxReads
    /\ light' = OcfAfterIsOn(light, status)
    /\ visits' = Keep("reads", visits + StartupCalls(light), visits)
    /\ reads' = Keep("reads", reads + 1, reads)
    /\ last' = LastAfter(Event("read", "ocf", op, "data", OcfIsOn(light, status),
                               <<>>, "none"))
    /\ UNCHANGED <<entities, status, inflight, written, applied, observe>>
    /\ UNCHANGED capVars

\* SamsungOcfSwitch.is_on
OcfReadIsOn == OcfRead("is_on")

\* SamsungOcfSwitch.icon: "if self.is_on"
OcfReadIcon == OcfRead("icon")

Next ==
    \/ SwitchTurnOn \/ SwitchTurnOff \/ SwitchResume
    \/ CustomTurnOn \/ CustomTurnOff \/ CustomResume
    \/ OcfTurnOn \/ OcfTurnOff \/ OcfResume
    \/ MediaTurnOn \/ MediaTurnOff \/ MediaResume
    \/ CallRaises \/ PushUpdate
    \/ ReadIsOn \/ OcfReadIsOn \/ OcfReadIcon

Spec == Init /\ [][Next]_vars
SpecEvents == InitEvents /\ [][Next]_vars
SpecOrder == InitOrder /\ [][Next]_vars
SpecReads == InitReads /\ [][Next]_vars


----------------------------------------------------------------------------
(* Properties                                                               *)

\* C1 (Spec): for the generic, the custom and the paged switch, while no push
\* update has arrived since the last successful write of the adapter's attribute,
\* is_on returns true after a successful turn-on and false after a successful
\* turn-off.
C1_OptimisticState ==
    /\ \A e \in entities :
         /\ written[e.attribute] = "on" => IsOn(status, e) = TRUE
         /\ written[e.attribute] = "off" => IsOn(status, e) = FALSE
    /\ light.exists =>
         /\ written.data = "on" => OcfIsOn(light, status) = TRUE
         /\ written.data = "off" => OcfIsOn(light, status) = FALSE

C1_Witness ==
    /\ light.exists
    /\ written.data = "on"
    /\ status.data.href = light.page
    /\ light.init_bool
    /\ OcfIsOn(light, status) = TRUE
    /\ written.volume = "off"

\* C2 (SpecCaps): the switch get_capabilities returns a list, never None, holding
\* exactly the registry keys that are in the input, each once; the empty list when
\* the input shares no key with the registry.
C2_SwitchCapabilities ==
    swResult.called =>
        LET got == swResult.ret.value
            registry == {"switch", "audioMute", "custom.spiMode",
                         "custom.autoCleaningMode"}
        IN  /\ ~swResult.ret.none
            /\ Elems(got) = registry \cap caps
            /\ Len(got) = Cardinality(registry \cap caps)
            /\ registry \cap caps = {} => got = <<>>

C2_Witness ==
    /\ swResult.called
    /\ swResult.ret.value = <<"switch", "custom.autoCleaningMode">>
    /\ "extra1" \in caps
    /\ "powerMeter" \in caps

\* C3 (SpecCaps): the media-player get_capabilities returns the fixed list of the
\* 11 required capabilities exactly when all 11 are in the input, and None (no
\* partial list) otherwise, whatever else the input holds.
C3_MediaCapabilities ==
    mpResult.called =>
        LET all == Elems(supported) \subseteq caps
        IN  /\ Len(supported) = 11
            /\ Cardinality(Elems(supported)) = 11
            /\ all => ~mpResult.ret.none /\ mpResult.ret.value = supported
            /\ ~all => mpResult.ret.none /\ mpResult.ret.value = <<>>

C3_Witness ==
    /\ mpResult.called
    /\ mpResult.ret.none
    /\ Cardinality(Elems(supported) \cap caps) = 10
    /\ "extra1" \in caps

\* C4 (SpecEvents): when a write handler of the custom or the paged switch resumes
\* with a truthy result the snapshot's attribute is the value written (and the
\* paged switch's execute_state the state written); when it resumes with a falsy
\* result the snapshot and the paged switch's fields are what they were.
C4_PatchOnlyOnSuccess ==
    [][(last'.kind = "resume" /\ last'.who \in {"custom", "ocf"}) =>
         IF last'.result
         THEN /\ \A e \in entities :
                   (last'.who = "custom" /\ e.kind = "custom"
                    /\ e.attribute = last'.attribute) =>
                       status'[e.attribute] =
                           (IF last'.op = "on" THEN e.on_value ELSE e.off_value)
              /\ last'.who = "ocf" =>
                   /\ status'.data.value =
                        (IF last'.op = "on" THEN light.on_value ELSE light.off_value)
                   /\ status'.data.href = status.data.href
                   /\ light'.execute_state = (last'.op = "on")
         ELSE status' = status /\ light' = light]_vars

C4_Witness ==
    /\ last.kind = "resume"
    /\ last.who = "ocf"
    /\ last.op = "off"
    /\ ~last.result
    /\ light.execute_state
    /\ status.data.value = light.on_value

\* C5 (SpecEvents): a paged switch made with on-value list ["Light_On"] and
\* off-value list ["Light_Off"], read while the snapshot's href is its page,
\* returns true when the payload list holds "Light_On", false when it holds
\* "Light_Off" and not "Light_On", and the cached state when it holds neither;
\* read while the href is another page it returns the cached state. The state
\* returned is the state cached afterwards.
C5_Classification ==
    [][(last'.kind = "read" /\ last'.who = "ocf"
        /\ light.on_value = <<"Light_On">> /\ light.off_value = <<"Light_Off">>) =>
         LET out == Elems(status.data.value)
             expected ==
                 IF status.data.href # light.page THEN light.execute_state
                 ELSE IF "Light_On" \in out THEN TRUE
                 ELSE IF "Light_Off" \in out THEN FALSE
                 ELSE light.execute_state
         IN  last'.result = expected /\ light'.execute_state = expected]_vars

C5_Witness ==
    /\ last.kind = "read"
    /\ last.who = "ocf"
    /\ light.on_value = <<"Light_On">>
    /\ light.off_value = <<"Light_Off">>
    /\ status.data.href = light.page
    /\ status.data.value = <<"Sleep_0">>
    /\ last.result = TRUE

\* C6 (SpecReads): no page visit is issued before the first is_on read of a
\* paged switch, and when that read has returned exactly one has been issued.
C6_FirstReadVisitsOnce ==
    light.exists =>
        /\ reads = 0 => visits = 0
        /\ reads = 1 => visits = 1

C6_Witness ==
    /\ light.exists
    /\ light.origin = "setup"
    /\ reads = 1
    /\ visits = 1
    /\ ~light.init_bool

\* C7 (SpecReads): over all reads, writes and push updates of one paged switch the
\* page visit is issued at most once.
C7_VisitAtMostOnce ==
    light.exists => visits <= 1

\* C8 (SpecEvents): a write handler whose remote call returned emits exactly one
\* state-changed notification, as its last effect, after the snapshot patch when
\* there is one; it emits it whether or not the call reported success.
C8_NotifyOnce ==
    last.kind = "resume" =>
        LET n == Len(last.effects)
        IN  /\ n >= 1
            /\ last.effects[n] = "async_write_ha_state"
            /\ \A i \in 1..(n - 1) : last.effects[i] # "async_write_ha_state"
            /\ last.result => n = 2 /\ last.effects[1] = "update_attribute_value"
            /\ ~last.result => n = 1

C8_Witness ==
    /\ last.kind = "resume"
    /\ last.who = "custom"
    /\ ~last.result
    /\ last.effects = <<"async_write_ha_state">>

\* C9 (SpecOrder): the snapshot holds, for every attribute, the value of the
\* patch or push update the event loop processed last, whatever the order in which
\* the commands were issued.
C9_LastWriteWins ==
    status = applied

C9_Witness ==
    /\ last.kind = "resume"
    /\ last.who = "custom"
    /\ last.result
    /\ last.op = "on"
    /\ last.overtakenBy = "off"
    /\ \E e \in entities :
         /\ e.kind = "custom"
         /\ e.attribute = last.attribute
         /\ status[e.attribute] = e.on_value

\* C10 (Spec): the "Light" switch async_setup_entry makes has on-value list
\* ["Light_Off"] and off-value list ["Light_On"]: it reads a payload holding
\* "Light_Off" as on and one holding "Light_On" (and not "Light_Off") as off, its
\* turn-on sends {key: ["Light_Off"]} and its turn-off {key: ["Light_On"]}.
C10_SetupLightReversed ==
    /\ \A d \in AllDevices :
         (d.mnmn = "Samsung Electronics" /\ d.type = "OCF" /\ d.climate
          /\ d.binaryId \notin {"SAC_SLIM1WAY", "SAC_BIG_SLIM1WAY", "MIM-H04EN"}) =>
             /\ SetupLight(d).exists
             /\ SetupLight(d).on_value = <<"Light_Off">>
             /\ SetupLight(d).off_value = <<"Light_On">>
    /\ light.origin = "setup" =>
         /\ light.on_value = <<"Light_Off">>
         /\ light.off_value = <<"Light_On">>
         /\ \A i \in DOMAIN inflight :
              inflight[i].kind = "ocf" =>
                  /\ inflight[i].sent.page = "/mode/vs/0"
                  /\ inflight[i].sent.key = "x.com.samsung.da.options"
                  /\ inflight[i].sent.value =
                       (IF inflight[i].op = "on" THEN <<"Light_Off">>
                        ELSE <<"Light_On">>)
         /\ status.data.href = light.page =>
              LET out == Elems(status.data.value)
              IN  /\ "Light_Off" \in out => OcfIsOn(light, status) = TRUE
                  /\ ("Light_On" \in out /\ "Light_Off" \notin out) =>
                        OcfIsOn(light, status) = FALSE

C10_Witness ==
    /\ light.origin = "setup"
    /\ \E i \in DOMAIN inflight :
         /\ inflight[i].kind = "ocf"
         /\ inflight[i].op = "on"
         /\ inflight[i].sent.value = <<"Light_Off">>
    /\ status.data.href = light.page
    /\ status.data.value = <<"Light_On">>
    /\ light.init_bool
    /\ ~light.execute_state

====
